---------------------------- MODULE Spec2Model ----------------------------
(***************************************************************************)
(* A model of the reward scoring engine of                                 *)
(* examples/reward_function/dapo_graph.py: answer extraction, the schema   *)
(* check, graph and edge similarity, the accuracy buckets, the length      *)
(* penalty and the batch loop of compute_score.                            *)
(*                                                                         *)
(* Representation.                                                         *)
(*  - A JSON value in a scalar slot is a record [k, s]: k is its kind      *)
(*    ("str", "null", "bool", "list" for [], "dict" for {}) and s its      *)
(*    text; k = "absent" says that the key is missing from its mapping.    *)
(*  - A JSON value in a collection slot (nodes, edges, spatial_relations)  *)
(*    is a record [k, s, elems]; for k = "list" elems are its elements.    *)
(*  - A response is a sequence of tokens (the word Answer, a colon,        *)
(*    whitespace, prose, a serialized JSON object, brace-delimited text    *)
(*    that is no JSON, a lone brace); the regular expressions of the code  *)
(*    are evaluated on that sequence.                                      *)
(*  - Python floats are modelled as exact fractions <<n, d>> in lowest     *)
(*    terms with d > 0.                                                    *)
(*  - The result of a function that may raise is [exc, val].               *)
(***************************************************************************)
EXTENDS Integers, Sequences, FiniteSets, TLC

-----------------------------------------------------------------------------
(* Fractions *)

RECURSIVE Gcd(_, _)
Gcd(a, b) == IF b = 0 THEN a ELSE Gcd(b, a % b)

Abs(n) == IF n < 0 THEN -n ELSE n

Frac(n, d) ==
    LET g == Gcd(Abs(n), Abs(d))
        sg == IF d < 0 THEN -1 ELSE 1
    IN  <<(sg * n) \div g, (sg * d) \div g>>

Zero == Frac(0, 1)
One == Frac(1, 1)

FAdd(x, y) == Frac(x[1] * y[2] + y[1] * x[2], x[2] * y[2])
FSub(x, y) == Frac(x[1] * y[2] - y[1] * x[2], x[2] * y[2])
FMul(x, y) == Frac(x[1] * y[1], x[2] * y[2])
FDivInt(x, n) == Frac(x[1], x[2] * n)
FLe(x, y) == x[1] * y[2] <= y[1] * x[2]
FLt(x, y) == x[1] * y[2] < y[1] * x[2]
FGe(x, y) == FLe(y, x)
FMax(x, y) == IF FLe(x, y) THEN y ELSE x

-----------------------------------------------------------------------------
(* JSON values *)

Str(s) == [k |-> "str", s |-> s]
Null == [k |-> "null", s |-> "null"]
Bool(b) == [k |-> "bool", s |-> IF b THEN "true" ELSE "false"]
EmptyList == [k |-> "list", s |-> "[]"]
EmptyDict == [k |-> "dict", s |-> "{}"]
Absent == [k |-> "absent", s |-> ""]

List(elems) == [k |-> "list", s |-> "", elems |-> elems]
NotList(v) == [k |-> v.k, s |-> v.s, elems |-> <<>>]

Range(seq) == {seq[i] : i \in 1..Len(seq)}

\* dict.get(key): a missing key reads as None.
Get(v) == IF v.k = "absent" THEN Null ELSE v

\* dict.get(key, []): a missing key reads as the empty list.
GetList(c) == IF c.k = "absent" THEN List(<<>>) ELSE c

\* Python's ==, on the values of the model.
PyEq(a, b) == a.k = b.k /\ a.s = b.s

\* Whether Python can hash the value (lists and dicts cannot be hashed).
Hashable(v) == v.k \in {"null", "str", "bool"}

Ok(v) == [exc |-> "none", val |-> v]
Raise(e) == [exc |-> e, val |-> Zero]

VALID_ACTION_TYPES ==
    {"press", "rotate", "pull", "open", "push", "close", "insert"}
VALID_FUNCTIONAL_RELATIONSHIPS ==
    {"openorclose", "adjust", "control", "providepower", "activate"}
VALID_SPATIAL_RELATIONS ==
    {"left_of", "right_of", "in_front_of", "behind", "higher_than",
     "lower_than", "close", "far", "touching"}

\* `value in S` / `value not in S` for a set S of strings: "yes", "no", or
\* "TypeError" when the value cannot be hashed.
InStrSet(v, S) ==
    IF ~Hashable(v) THEN "TypeError"
    ELSE IF v.k = "str" /\ v.s \in S THEN "yes" ELSE "no"

-----------------------------------------------------------------------------
(* Payloads: the parsed JSON object of an answer or of a ground truth *)

Edge(fr, o1, o2, sp, touch) ==
    [k |-> "dict", s |-> "",
     functional_relationship |-> fr, object1 |-> o1, object2 |-> o2,
     spatial_relations |-> sp, is_touching |-> touch]

\* An element of edges that is no mapping (a string, null, a list).
NotEdge(v) ==
    [k |-> v.k, s |-> v.s,
     functional_relationship |-> Absent, object1 |-> Absent,
     object2 |-> Absent, spatial_relations |-> NotList(Absent),
     is_touching |-> Absent]

Graph(ti, nodes, edges, at, ft) ==
    [task_instruction |-> ti, nodes |-> nodes, edges |-> edges,
     action_type |-> at, function_type |-> ft]

\* The JSON object {} : every key is missing.
EmptyPayload ==
    Graph(Absent, NotList(Absent), NotList(Absent), Absent, Absent)

-----------------------------------------------------------------------------
(* Response text *)

Tok(t) == [t |-> t, n |-> 0, obj |-> EmptyPayload]
\* The word `Answer`, a colon, a lone brace.
TAnswer == Tok("Answer")
TColon == Tok(":")
TLBrace == Tok("{")
TRBrace == Tok("}")
\* n whitespace characters.
TWs(n) == [t |-> "ws", n |-> n, obj |-> EmptyPayload]
\* n characters of prose: no brace, no quote, no colon, not the word Answer,
\* and not only whitespace.
TText(n) == [t |-> "text", n |-> n, obj |-> EmptyPayload]
\* The text `{invalid json format}`.
TBad == Tok("bad")
\* json.dumps of a payload.
TObj(p) == [t |-> "obj", n |-> 0, obj |-> p]

RECURSIVE Join(_)
Join(strs) ==
    IF Len(strs) = 0 THEN ""
    ELSE IF Len(strs) = 1 THEN strs[1]
    ELSE strs[1] \o ", " \o Join(Tail(strs))

ScalarText(v) == IF v.k = "str" THEN "\"" \o v.s \o "\"" ELSE v.s

Member(key, v, text) ==
    IF v.k = "absent" THEN <<>> ELSE <<"\"" \o key \o "\": " \o text>>

StrListText(c) ==
    IF c.k = "list"
    THEN "[" \o Join([i \in 1..Len(c.elems) |-> ScalarText(c.elems[i])]) \o "]"
    ELSE ScalarText(c)

EdgeText(e) ==
    IF e.k = "dict"
    THEN "{" \o Join(
            Member("functional_relationship", e.functional_relationship,
                   ScalarText(e.functional_relationship))
            \o Member("object1", e.object1, ScalarText(e.object1))
            \o Member("object2", e.object2, ScalarText(e.object2))
            \o Member("spatial_relations", e.spatial_relations,
                      StrListText(e.spatial_relations))
            \o Member("is_touching", e.is_touching, ScalarText(e.is_touching)))
         \o "}"
    ELSE ScalarText(e)

EdgeListText(c) ==
    IF c.k = "list"
    THEN "[" \o Join([i \in 1..Len(c.elems) |-> EdgeText(c.elems[i])]) \o "]"
    ELSE ScalarText(c)

\* json.dumps(payload), keys in the order of the reference fixture.
JsonText(p) ==
    "{" \o Join(
        Member("task_instruction", p.task_instruction,
               ScalarText(p.task_instruction))
        \o Member("nodes", p.nodes, StrListText(p.nodes))
        \o Member("edges", p.edges, EdgeListText(p.edges))
        \o Member("action_type", p.action_type, ScalarText(p.action_type))
        \o Member("function_type", p.function_type,
                  ScalarText(p.function_type)))
    \o "}"

TokLen(tok) ==
    CASE tok.t = "Answer" -> 6
      [] tok.t \in {":", "{", "}"} -> 1
      [] tok.t \in {"ws", "text"} -> tok.n
      [] tok.t = "bad" -> 21
      [] tok.t = "obj" -> Len(JsonText(tok.obj))

RECURSIVE SumLen(_)
SumLen(toks) == IF toks = <<>> THEN 0 ELSE TokLen(Head(toks)) + SumLen(Tail(toks))

\* len(response)
PyLen(response) == SumLen(response)

-----------------------------------------------------------------------------
(* extract_answer_json *)

StartsWithBrace(tok) == tok.t \in {"obj", "bad", "{"}
HasRBrace(tok) == tok.t \in {"obj", "bad", "}"}

\* \s* from position i: the first position at or after i that holds no
\* whitespace (Len + 1 when there is none).
RECURSIVE SkipWs(_, _)
SkipWs(resp, i) ==
    IF i <= Len(resp) /\ resp[i].t = "ws" THEN SkipWs(resp, i + 1) ELSE i

\* Where the opening brace would be for a label starting at i.
BraceOf(resp, i) == SkipWs(resp, SkipWs(resp, i + 1) + 1)

\* Answer\s*:\s*\{ matches at position i.
LabelAt(resp, i) ==
    /\ resp[i].t = "Answer"
    /\ LET c == SkipWs(resp, i + 1)
       IN  /\ c <= Len(resp)
           /\ resp[c].t = ":"
           /\ LET b == SkipWs(resp, c + 1)
              IN  b <= Len(resp) /\ StartsWithBrace(resp[b])

\* re.search(r"Answer\s*:\s*\{", response)
LabelFound(resp) == \E i \in 1..Len(resp) : LabelAt(resp, i)

\* A faulty end of the group: the end of the text.
LastRBraceEnd(resp) == Len(resp)

\* The position of the last closing brace of the text, 0 when there is none.
LastRBrace(resp) ==
    LET S == {i \in 1..Len(resp) : HasRBrace(resp[i])}
    IN  IF S = {} THEN 0 ELSE CHOOSE i \in S : \A j \in S : j <= i

\* A faulty search: the group starts at the last label, not the first.
MatchGroupLast(resp) ==
    LET S == {i \in 1..Len(resp) :
                 LabelAt(resp, i) /\ LastRBrace(resp) >= BraceOf(resp, i)}
    IN  IF S = {} THEN <<>>
        ELSE LET i == CHOOSE i \in S : \A j \in S : j <= i
             IN  SubSeq(resp, BraceOf(resp, i), LastRBrace(resp))

\* re.search(r"Answer\s*:\s*(\{.*\})", response, re.DOTALL): the leftmost
\* label that a closing brace follows; the group runs from its opening brace
\* to the last closing brace of the text.  <<>> when there is no match.
MatchGroup(resp) ==
    LET S == {i \in 1..Len(resp) :
                 LabelAt(resp, i) /\ LastRBrace(resp) >= BraceOf(resp, i)}
    IN  IF S = {} THEN <<>>
        ELSE LET i == CHOOSE i \in S : \A j \in S : i <= j
             IN  SubSeq(resp, BraceOf(resp, i), LastRBrace(resp))

\* json.loads of the group (strip() changes nothing: the group starts with
\* an opening and ends with a closing brace).  It parses when it is exactly
\* one serialized object, or a lone { and } with only whitespace between.
JsonLoads(group) ==
    IF Len(group) = 1 /\ group[1].t = "obj"
    THEN [found |-> TRUE, json |-> group[1].obj]
    ELSE IF /\ Len(group) >= 2
            /\ group[1].t = "{"
            /\ group[Len(group)].t = "}"
            /\ \A i \in 2..(Len(group) - 1) : group[i].t = "ws"
    THEN [found |-> TRUE, json |-> EmptyPayload]
    ELSE [found |-> FALSE, json |-> EmptyPayload]

\* found = FALSE is the None the code returns.
extract_answer_json(response) ==
    LET group == MatchGroup(response)
    IN  IF group = <<>> THEN [found |-> FALSE, json |-> EmptyPayload]
        ELSE JsonLoads(group)

-----------------------------------------------------------------------------
(* format_reward *)

HasKey(v) == v.k # "absent"

\* The loop over spatial_rels: "ok", "zero" (return 0.0) or "TypeError".
RECURSIVE SpatialCheck(_)
SpatialCheck(rels) ==
    IF rels = <<>> THEN "ok"
    ELSE LET r == InStrSet(Head(rels), VALID_SPATIAL_RELATIONS)
         IN  IF r = "TypeError" THEN "TypeError"
             ELSE IF r = "no" THEN "zero"
             ELSE SpatialCheck(Tail(rels))

\* The body of the loop over edges, for one edge.
EdgeCheck(edge) ==
    IF edge.k # "dict" THEN "zero"
    ELSE IF ~(/\ HasKey(edge.functional_relationship)
              /\ HasKey(edge.object1)
              /\ HasKey(edge.object2)
              /\ HasKey(edge.spatial_relations)
              /\ HasKey(edge.is_touching)) THEN "zero"
    ELSE LET fr == InStrSet(edge.functional_relationship,
                            VALID_FUNCTIONAL_RELATIONSHIPS)
         IN  IF fr = "TypeError" THEN "TypeError"
             ELSE IF fr = "no" THEN "zero"
             ELSE IF edge.spatial_relations.k # "list" THEN "zero"
             ELSE LET sp == SpatialCheck(edge.spatial_relations.elems)
                  IN  IF sp # "ok" THEN sp
                      ELSE IF edge.is_touching.k # "bool" THEN "zero"
                      ELSE "ok"

RECURSIVE EdgesCheck(_)
EdgesCheck(edges) ==
    IF edges = <<>> THEN "ok"
    ELSE LET r == EdgeCheck(Head(edges))
         IN  IF r # "ok" THEN r ELSE EdgesCheck(Tail(edges))

\* Steps 3 to 6 of format_reward, on the parsed payload.
SchemaCheck(p) ==
    IF ~(/\ HasKey(p.task_instruction) /\ HasKey(p.nodes) /\ HasKey(p.edges)
         /\ HasKey(p.action_type) /\ HasKey(p.function_type)) THEN "zero"
    ELSE IF p.nodes.k # "list" THEN "zero"
    ELSE IF p.edges.k # "list" THEN "zero"
    ELSE IF p.task_instruction.k # "str" THEN "zero"
    ELSE LET at == InStrSet(p.action_type, VALID_ACTION_TYPES)
         IN  IF at = "TypeError" THEN "TypeError"
             ELSE IF at = "no" THEN "zero"
             ELSE EdgesCheck(p.edges.elems)

format_reward(response) ==
    IF ~LabelFound(response) THEN Ok(Zero)
    ELSE LET answer_json == extract_answer_json(response)
         IN  IF ~answer_json.found THEN Ok(Zero)
             ELSE LET r == SchemaCheck(answer_json.json)
                  IN  IF r = "TypeError" THEN Raise("TypeError")
                      ELSE IF r = "zero" THEN Ok(Zero)
                      ELSE Ok(One)

-----------------------------------------------------------------------------
(* calculate_edge_similarity, calculate_graph_similarity *)

\* set(c) for the value of a collection slot read with .get(key, []).  The
\* similarity routines receive lists only (a prediction that passed
\* format_reward, a well-formed ground truth); iterating null or a boolean
\* raises, as does hashing an element that is a list or a dict.
SetOf(c) ==
    LET l == GetList(c)
    IN  IF l.k = "dict" THEN [exc |-> "none", set |-> {}]
        ELSE IF l.k # "list" THEN [exc |-> "TypeError", set |-> {}]
        ELSE IF \E i \in 1..Len(l.elems) : ~Hashable(l.elems[i])
        THEN [exc |-> "TypeError", set |-> {}]
        ELSE [exc |-> "none", set |-> Range(l.elems)]

\* A faulty Jaccard index: the intersection over the ground-truth set alone.
JaccardRecall(pred_set, gt_set) ==
    IF gt_set = {} THEN Zero
    ELSE Frac(Cardinality(pred_set \cap gt_set), Cardinality(gt_set))

\* Intersection over union, 0.0 when the ground-truth set is empty.
Jaccard(pred_set, gt_set) ==
    IF gt_set = {} THEN Zero
    ELSE LET intersection == Cardinality(pred_set \cap gt_set)
             union == Cardinality(pred_set \cup gt_set)
         IN  IF union > 0 THEN Frac(intersection, union) ELSE Zero

Indicator(b) == IF b THEN One ELSE Zero

calculate_edge_similarity(pred_edge, gt_edge) ==
    IF pred_edge.k # "dict" \/ gt_edge.k # "dict" THEN Raise("AttributeError")
    ELSE IF \E o \in {Get(pred_edge.object1), Get(pred_edge.object2),
                      Get(gt_edge.object1), Get(gt_edge.object2)} : ~Hashable(o)
    THEN Raise("TypeError")
    ELSE
    LET pred_objects == {Get(pred_edge.object1), Get(pred_edge.object2)}
        gt_objects == {Get(gt_edge.object1), Get(gt_edge.object2)}
        objects == Indicator(pred_objects = gt_objects)
        functional ==
            Indicator(PyEq(Get(pred_edge.functional_relationship),
                           Get(gt_edge.functional_relationship)))
        pred_spatial == SetOf(pred_edge.spatial_relations)
        gt_spatial == SetOf(gt_edge.spatial_relations)
        touching ==
            Indicator(PyEq(Get(pred_edge.is_touching), Get(gt_edge.is_touching)))
    IN  IF pred_spatial.exc # "none" \/ gt_spatial.exc # "none"
        THEN Raise("TypeError")
        ELSE Ok(FDivInt(
                FAdd(FAdd(objects, functional),
                     FAdd(Jaccard(pred_spatial.set, gt_spatial.set), touching)),
                4))

\* A faulty inner loop: the last predicted edge wins, not the best.
RECURSIVE BestMatchLast(_, _, _)
BestMatchLast(pred_edges, gt_edge, best_match) ==
    IF pred_edges = <<>> THEN Ok(best_match)
    ELSE LET edge_sim == calculate_edge_similarity(Head(pred_edges), gt_edge)
         IN  IF edge_sim.exc # "none" THEN edge_sim
             ELSE BestMatchLast(Tail(pred_edges), gt_edge, edge_sim.val)

\* The inner loop: the best calculate_edge_similarity of gt_edge against the
\* predicted edges, starting from best_match.
RECURSIVE BestMatch(_, _, _)
BestMatch(pred_edges, gt_edge, best_match) ==
    IF pred_edges = <<>> THEN Ok(best_match)
    ELSE LET edge_sim == calculate_edge_similarity(Head(pred_edges), gt_edge)
         IN  IF edge_sim.exc # "none" THEN edge_sim
             ELSE BestMatch(Tail(pred_edges), gt_edge,
                            FMax(best_match, edge_sim.val))

\* The outer loop: the sum of the best matches over the ground-truth edges.
RECURSIVE EdgeScoreSum(_, _)
EdgeScoreSum(pred_edges, gt_edges) ==
    IF gt_edges = <<>> THEN Ok(Zero)
    ELSE LET b == BestMatch(pred_edges, Head(gt_edges), Zero)
         IN  IF b.exc # "none" THEN b
             ELSE LET rest == EdgeScoreSum(pred_edges, Tail(gt_edges))
                  IN  IF rest.exc # "none" THEN rest
                      ELSE Ok(FAdd(b.val, rest.val))

\* A faulty penalty: the floor at 0 is missing.
ExtraEdgePenaltyNoFloor(edge_score, n_pred, n_gt) ==
    IF n_pred > n_gt
    THEN FSub(edge_score, Frac(n_pred - n_gt, 10))
    ELSE edge_score

\* A faulty penalty: the excess is counted from the ground truth's side.
ExtraEdgePenaltySign(edge_score, n_pred, n_gt) ==
    IF n_pred > n_gt
    THEN FMax(Zero, FSub(edge_score, Frac(n_gt - n_pred, 10)))
    ELSE edge_score

\* Penalize extra edges: 0.1 for each predicted edge beyond the ground truth's.
ExtraEdgePenalty(edge_score, n_pred, n_gt) ==
    IF n_pred > n_gt
    THEN FMax(Zero, FSub(edge_score, Frac(n_pred - n_gt, 10)))
    ELSE edge_score

\* A faulty component 5: the sum is averaged over the predicted edges.
EdgesComponentByPred(pred_edges, gt_edges) ==
    IF gt_edges = <<>> THEN Ok(Zero)
    ELSE LET sum == EdgeScoreSum(pred_edges, gt_edges)
         IN  IF sum.exc # "none" THEN sum
             ELSE Ok(ExtraEdgePenalty(
                        FDivInt(sum.val,
                                IF pred_edges = <<>> THEN 1 ELSE Len(pred_edges)),
                        Len(pred_edges), Len(gt_edges)))

\* Component 5 of calculate_graph_similarity.
EdgesComponent(pred_edges, gt_edges) ==
    IF gt_edges = <<>> THEN Ok(Zero)
    ELSE LET sum == EdgeScoreSum(pred_edges, gt_edges)
         IN  IF sum.exc # "none" THEN sum
             ELSE Ok(ExtraEdgePenalty(FDivInt(sum.val, Len(gt_edges)),
                                      Len(pred_edges), Len(gt_edges)))

\* A faulty nodes component: the union is taken as the sum of the sizes.
NodesComponentSum(pred_nodes, gt_nodes) ==
    LET ps == SetOf(pred_nodes)
        gs == SetOf(gt_nodes)
    IN  IF ps.exc # "none" \/ gs.exc # "none" THEN Raise("TypeError")
        ELSE IF gs.set = {} THEN Ok(Zero)
        ELSE Ok(Frac(Cardinality(ps.set \cap gs.set),
                     Cardinality(ps.set) + Cardinality(gs.set)))

\* Component 4 of calculate_graph_similarity.
NodesComponent(pred_nodes, gt_nodes) ==
    LET ps == SetOf(pred_nodes)
        gs == SetOf(gt_nodes)
    IN  IF ps.exc # "none" \/ gs.exc # "none" THEN Raise("TypeError")
        ELSE Ok(Jaccard(ps.set, gs.set))

\* The elements of pred_json.get("edges", []), a list in every call the
\* program makes.
EdgeList(c) == IF c.k = "list" THEN c.elems ELSE <<>>

\* pred_json and gt_json are [found, json]; found = FALSE is None.
calculate_graph_similarity(pred_json, gt_json) ==
    IF ~pred_json.found \/ ~gt_json.found THEN Ok(Zero)
    ELSE
    LET pred == pred_json.json
        gt == gt_json.json
        task == Indicator(PyEq(Get(pred.task_instruction),
                               Get(gt.task_instruction)))
        action == Indicator(PyEq(Get(pred.action_type), Get(gt.action_type)))
        function == Indicator(PyEq(Get(pred.function_type),
                                   Get(gt.function_type)))
        nodes == NodesComponent(pred.nodes, gt.nodes)
        edges == EdgesComponent(EdgeList(pred.edges), EdgeList(gt.edges))
    IN  IF nodes.exc # "none" THEN nodes
        ELSE IF edges.exc # "none" THEN edges
        ELSE Ok(FDivInt(
                FAdd(FAdd(FAdd(task, action), function),
                     FAdd(nodes.val, edges.val)),
                5))

-----------------------------------------------------------------------------
(* accuracy_reward, soft_overlong_punishment *)

\* A faulty parse: text that is no JSON is taken for None.
ParseGroundTruthLenient(ground_truth) ==
    IF ground_truth.t = "obj"
    THEN [parses |-> TRUE, found |-> TRUE, json |-> ground_truth.obj]
    ELSE [parses |-> TRUE, found |-> FALSE, json |-> EmptyPayload]

\* json.loads(ground_truth.strip()).  A ground truth is the text of a JSON
\* object, the text `null`, or text that is no JSON; parses = FALSE is the
\* JSONDecodeError, found = FALSE the None that `null` parses to.
ParseGroundTruth(ground_truth) ==
    CASE ground_truth.t = "obj" ->
            [parses |-> TRUE, found |-> TRUE, json |-> ground_truth.obj]
      [] ground_truth.t = "null" ->
            [parses |-> TRUE, found |-> FALSE, json |-> EmptyPayload]
      [] OTHER ->
            [parses |-> FALSE, found |-> FALSE, json |-> EmptyPayload]

\* Faulty buckets: the 0.85 boundary is exclusive.
AccuracyBucketStrict(similarity_) ==
    IF FGe(similarity_, Frac(98, 100)) THEN One
    ELSE IF FLt(Frac(85, 100), similarity_) THEN Frac(8, 10)
    ELSE IF FGe(similarity_, Frac(7, 10)) THEN Frac(5, 10)
    ELSE IF FGe(similarity_, Frac(5, 10)) THEN Frac(2, 10)
    ELSE IF FGe(similarity_, Frac(3, 10)) THEN Zero
    ELSE Frac(-5, 10)

\* The DAPO-style buckets of accuracy_reward.
AccuracyBucket(similarity_) ==
    IF FGe(similarity_, Frac(98, 100)) THEN One
    ELSE IF FGe(similarity_, Frac(85, 100)) THEN Frac(8, 10)
    ELSE IF FGe(similarity_, Frac(7, 10)) THEN Frac(5, 10)
    ELSE IF FGe(similarity_, Frac(5, 10)) THEN Frac(2, 10)
    ELSE IF FGe(similarity_, Frac(3, 10)) THEN Zero
    ELSE Frac(-5, 10)

\* A faulty gate: accuracy_reward without its format check.
FormatGateOff(response_) == "pass"

\* The format gate of accuracy_reward: format_reward(response) == 0.0.
\* "TypeError" when format_reward raises.
FormatGate(response_) ==
    LET f == format_reward(response_)
    IN  IF f.exc # "none" THEN f.exc
        ELSE IF f.val = Zero THEN "fail" ELSE "pass"

accuracy_reward(response, ground_truth) ==
    LET pred_json == extract_answer_json(response)
        gt_json == ParseGroundTruth(ground_truth)
    IN  IF ~gt_json.parses THEN Ok(Frac(-5, 10))
        ELSE IF ~pred_json.found THEN Ok(Frac(-5, 10))
        ELSE LET gate == FormatGate(response)
             IN  IF gate = "fail" THEN Ok(Zero)
                 ELSE IF gate # "pass" THEN Raise(gate)
                 ELSE LET sim ==
                              calculate_graph_similarity(pred_json, gt_json)
                      IN  IF sim.exc # "none" THEN sim
                          ELSE Ok(AccuracyBucket(sim.val))

\* A faulty penalty: the slope is taken over the whole length budget.
SoftOverlongByMax(response_length_, max_len, buffer_len) ==
    LET expected_len == max_len - buffer_len
    IN  IF response_length_ <= expected_len THEN Zero
        ELSE IF response_length_ <= max_len
        THEN Frac(expected_len - response_length_, max_len)
        ELSE Frac(-1, 1)

soft_overlong_punishment(response_length_, max_len, buffer_len) ==
    LET expected_len == max_len - buffer_len
    IN  IF response_length_ <= expected_len THEN Zero
        ELSE IF response_length_ <= max_len
        THEN Frac(expected_len - response_length_, buffer_len)
        ELSE Frac(-1, 1)

-----------------------------------------------------------------------------
(* compute_score: the state of one call *)

VARIABLES
    reward_inputs,            \* the batch argument: [isList, items]
    max_response_length,
    overlong_buffer_length,
    overlong_penalty_factor,
    format_weight,
    pc,                       \* the position of the call
    exc,                      \* the exception the call raised, "none" if none
    idx,                      \* the number of the sample the loop is at
    scores,                   \* the list the call builds and returns
    format_score,             \* the locals of the loop body
    accuracy_score,
    overlong_score,
    response_length,          \* len(response), as passed to the length penalty
    pred_json,                \* the locals of accuracy_reward
    gt_json,
    similarity

config == <<max_response_length, overlong_buffer_length,
            overlong_penalty_factor, format_weight>>
locals == <<format_score, accuracy_score, overlong_score, response_length,
            pred_json, gt_json, similarity>>
vars == <<reward_inputs, config, pc, exc, idx, scores, locals>>

\* A local that holds no value yet.
Unset == <<0, 0>>
NoJson == [found |-> FALSE, json |-> EmptyPayload]
NoGt == [parses |-> FALSE, found |-> FALSE, json |-> EmptyPayload]

reward_input == reward_inputs.items[idx]
response == reward_input.response

\* A faulty record: the length penalty enters overall without its factor.
ScoreRecordNoFactor(fmt, acc, ovl, factor, weight) ==
    [overall |-> FAdd(FAdd(FMul(weight, fmt), FMul(FSub(One, weight), acc)),
                      ovl),
     format |-> fmt,
     accuracy |-> acc,
     overlong |-> ovl,
     accuracy_normalized |-> FMul(Frac(1, 2), FAdd(acc, One))]

\* The record compute_score appends for one sample.
ScoreRecord(fmt, acc, ovl, factor, weight) ==
    [overall |-> FAdd(FAdd(FMul(weight, fmt), FMul(FSub(One, weight), acc)),
                      FMul(ovl, factor)),
     format |-> fmt,
     accuracy |-> acc,
     overlong |-> ovl,
     accuracy_normalized |-> FMul(Frac(1, 2), FAdd(acc, One))]

\* A faulty entry: the batch argument is not checked.
CallUnchecked ==
    /\ pc = "call"
    /\ pc' = "loop"
    /\ UNCHANGED <<reward_inputs, config, exc, idx, scores, locals>>

\* if not isinstance(reward_inputs, list): raise ValueError; scores = []
Call ==
    /\ pc = "call"
    /\ IF reward_inputs.isList
       THEN pc' = "loop" /\ exc' = exc
       ELSE pc' = "raised" /\ exc' = "ValueError"
    /\ UNCHANGED <<reward_inputs, config, idx, scores, locals>>

\* for reward_input in reward_inputs: the next sample
NextSample ==
    /\ pc = "loop"
    /\ idx < Len(reward_inputs.items)
    /\ idx' = idx + 1
    /\ pc' = "format"
    /\ UNCHANGED <<reward_inputs, config, exc, scores, locals>>

\* format_score = format_reward(response)
FormatStep ==
    /\ pc = "format"
    /\ LET r == format_reward(response)
       IN  IF r.exc # "none"
           THEN pc' = "raised" /\ exc' = r.exc /\ format_score' = format_score
           ELSE pc' = "acc_extract" /\ exc' = exc /\ format_score' = r.val
    /\ UNCHANGED <<reward_inputs, config, idx, scores, accuracy_score,
                   overlong_score, response_length, pred_json, gt_json,
                   similarity>>

\* accuracy_reward: pred_json = extract_answer_json(response)
AccExtract ==
    /\ pc = "acc_extract"
    /\ pred_json' = extract_answer_json(response)
    /\ pc' = "acc_parse_gt"
    /\ UNCHANGED <<reward_inputs, config, exc, idx, scores, format_score,
                   accuracy_score, overlong_score, response_length, gt_json,
                   similarity>>

\* accuracy_reward: gt_json = json.loads(ground_truth.strip()), -0.5 when
\* that fails
AccParseGt ==
    /\ pc = "acc_parse_gt"
    /\ LET gt == ParseGroundTruth(reward_input.ground_truth)
       IN  IF gt.parses
           THEN /\ gt_json' = gt
                /\ accuracy_score' = accuracy_score
                /\ pc' = "acc_check_pred"
           ELSE /\ gt_json' = gt_json
                /\ accuracy_score' = Frac(-5, 10)
                /\ pc' = "overlong"
    /\ UNCHANGED <<reward_inputs, config, exc, idx, scores, format_score,
                   overlong_score, response_length, pred_json, similarity>>

\* A faulty check: an extracted payload goes to the similarity at once.
AccCheckPredUngated ==
    /\ pc = "acc_check_pred"
    /\ IF pred_json.found
       THEN pc' = "acc_similarity" /\ accuracy_score' = accuracy_score
       ELSE pc' = "overlong" /\ accuracy_score' = Frac(-5, 10)
    /\ UNCHANGED <<reward_inputs, config, exc, idx, scores, format_score,
                   overlong_score, response_length, pred_json, gt_json,
                   similarity>>

\* accuracy_reward: if pred_json is None: return -0.5
AccCheckPred ==
    /\ pc = "acc_check_pred"
    /\ IF pred_json.found
       THEN pc' = "acc_gate" /\ accuracy_score' = accuracy_score
       ELSE pc' = "overlong" /\ accuracy_score' = Frac(-5, 10)
    /\ UNCHANGED <<reward_inputs, config, exc, idx, scores, format_score,
                   overlong_score, response_length, pred_json, gt_json,
                   similarity>>

\* accuracy_reward: if format_reward(response) == 0.0: return 0.0
AccGate ==
    /\ pc = "acc_gate"
    /\ LET gate == FormatGate(response)
       IN  IF gate = "fail"
           THEN pc' = "overlong" /\ accuracy_score' = Zero /\ exc' = exc
           ELSE IF gate = "pass"
           THEN pc' = "acc_similarity" /\ accuracy_score' = accuracy_score
                /\ exc' = exc
           ELSE pc' = "raised" /\ accuracy_score' = accuracy_score
                /\ exc' = gate
    /\ UNCHANGED <<reward_inputs, config, idx, scores, format_score,
                   overlong_score, response_length, pred_json, gt_json,
                   similarity>>

\* accuracy_reward: similarity = calculate_graph_similarity(pred_json, gt_json)
AccSimilarity ==
    /\ pc = "acc_similarity"
    /\ LET r == calculate_graph_similarity(pred_json, gt_json)
       IN  IF r.exc # "none"
           THEN pc' = "raised" /\ exc' = r.exc /\ similarity' = similarity
           ELSE pc' = "acc_bucket" /\ exc' = exc /\ similarity' = r.val
    /\ UNCHANGED <<reward_inputs, config, idx, scores, format_score,
                   accuracy_score, overlong_score, response_length, pred_json,
                   gt_json>>

\* accuracy_reward: the if/elif chain over similarity
AccBucket ==
    /\ pc = "acc_bucket"
    /\ accuracy_score' = AccuracyBucket(similarity)
    /\ pc' = "overlong"
    /\ UNCHANGED <<reward_inputs, config, exc, idx, scores, format_score,
                   overlong_score, response_length, pred_json, gt_json,
                   similarity>>

\* overlong_score = soft_overlong_punishment(len(response), ...)
OverlongStep ==
    /\ pc = "overlong"
    /\ response_length' = PyLen(response)
    /\ overlong_score' =
           soft_overlong_punishment(PyLen(response), max_response_length,
                                    overlong_buffer_length)
    /\ pc' = "append"
    /\ UNCHANGED <<reward_inputs, config, exc, idx, scores, format_score,
                   accuracy_score, pred_json, gt_json, similarity>>

\* The value scores has after scores.append({...}).
Appended(list, record) == Append(list, record)

\* overall = ...; scores.append({...}); the locals die with the iteration
AppendScore ==
    /\ pc = "append"
    /\ scores' = Appended(scores,
                          ScoreRecord(format_score, accuracy_score,
                                      overlong_score, overlong_penalty_factor,
                                      format_weight))
    /\ format_score' = Unset
    /\ accuracy_score' = Unset
    /\ overlong_score' = Unset
    /\ response_length' = 0
    /\ pred_json' = NoJson
    /\ gt_json' = NoGt
    /\ similarity' = Unset
    /\ pc' = "loop"
    /\ UNCHANGED <<reward_inputs, config, exc, idx>>

\* return scores
Return ==
    /\ pc = "loop"
    /\ idx >= Len(reward_inputs.items)
    /\ pc' = "returned"
    /\ UNCHANGED <<reward_inputs, config, exc, idx, scores, locals>>

Next ==
    \/ Call
    \/ NextSample
    \/ FormatStep
    \/ AccExtract
    \/ AccParseGt
    \/ AccCheckPred
    \/ AccGate
    \/ AccSimilarity
    \/ AccBucket
    \/ OverlongStep
    \/ AppendScore
    \/ Return

-----------------------------------------------------------------------------
(* The inputs the model is run on *)

\* The largest batch built from BatchSamples.
MaxBatch == 2
\* Prose comes in lengths of 100, 200, ... MaxPad * 100 characters.
MaxPad == 2

Strs(seq) == List([i \in 1..Len(seq) |-> Str(seq[i])])

\* The reference fixture of examples/test_graph_reward.py.
ToasterEdge ==
    Edge(Str("providepower"), Str("electric outlet"), Str("toaster"),
         Strs(<<"higher_than", "right_of", "in_front_of", "close">>),
         Bool(FALSE))
Toaster ==
    Graph(Str("Power on the toaster."), Strs(<<"electric outlet", "toaster">>),
          List(<<ToasterEdge>>), Str("insert"), Str("power_supply"))

\* The ground truth of test_edge_cases: no edges.
TestTask ==
    Graph(Str("Test task"), Strs(<<"obj1">>), List(<<>>), Str("press"),
          Str("control"))

\* The ground truth of test_slash_objects.py.
FaucetEdge ==
    Edge(Str("control"), Str("faucet / handle"), Str("kitchen sink"),
         Strs(<<"higher_than", "behind", "close">>), Bool(TRUE))
Faucet ==
    Graph(Str("Control water flow of the kitchen sink."),
          Strs(<<"faucet / handle", "kitchen sink">>), List(<<FaucetEdge>>),
          Str("open"), Str("water_flow_control"))

\* The prediction of test_slash_objects.py: the ground truth with the object
\* `faucet / handle` named by one of its aliases, in nodes and in the edge.
FaucetAs(alias) ==
    [Faucet EXCEPT !.nodes = Strs(<<alias, "kitchen sink">>),
                   !.edges = List(<<[FaucetEdge EXCEPT
                                        !.object1 = Str(alias)]>>)]

\* An edge with no spatial relation, and one that shares nothing with the
\* fixture's.
SwitchEdge ==
    Edge(Str("control"), Str("switch"), Str("toaster"), Strs(<<>>), Bool(TRUE))
DoorEdge ==
    Edge(Str("activate"), Str("door"), Str("window"), Strs(<<"far">>),
         Bool(TRUE))

\* One change to a payload.  An edit of the first edge leaves a payload
\* without a first edge as it is.
HasEdge(g) == g.edges.k = "list" /\ Len(g.edges.elems) > 0
HasNodes(g) == g.nodes.k = "list" /\ Len(g.nodes.elems) > 0
FirstEdge(g, e) == [g EXCEPT !.edges.elems[1] = e]

Edit(g, e) ==
    CASE e = "ti_other" -> [g EXCEPT !.task_instruction = Str("Turn it on.")]
      [] e = "ti_null" -> [g EXCEPT !.task_instruction = Null]
      [] e = "ti_absent" -> [g EXCEPT !.task_instruction = Absent]
      [] e = "at_other" ->
            [g EXCEPT !.action_type =
                IF g.action_type = Str("press") THEN Str("rotate")
                ELSE Str("press")]
      [] e = "at_invalid" -> [g EXCEPT !.action_type = Str("invalid_action")]
      [] e = "at_list" -> [g EXCEPT !.action_type = EmptyList]
      [] e = "at_dict" -> [g EXCEPT !.action_type = EmptyDict]
      [] e = "at_null" -> [g EXCEPT !.action_type = Null]
      [] e = "at_absent" -> [g EXCEPT !.action_type = Absent]
      [] e = "ft_other" -> [g EXCEPT !.function_type = Str("other_function")]
      [] e = "ft_list" -> [g EXCEPT !.function_type = EmptyList]
      [] e = "ft_null" -> [g EXCEPT !.function_type = Null]
      [] e = "ft_absent" -> [g EXCEPT !.function_type = Absent]
      [] e = "nodes_extra" ->
            IF g.nodes.k = "list"
            THEN [g EXCEPT !.nodes.elems = @ \o <<Str("window")>>] ELSE g
      [] e = "nodes_extra2" ->
            IF g.nodes.k = "list"
            THEN [g EXCEPT !.nodes.elems =
                     @ \o <<Str("kitchen counter"), Str("window")>>]
            ELSE g
      [] e = "nodes_drop" ->
            IF HasNodes(g) THEN [g EXCEPT !.nodes.elems = Tail(@)] ELSE g
      [] e = "nodes_other" -> [g EXCEPT !.nodes = Strs(<<"door">>)]
      [] e = "nodes_empty" -> [g EXCEPT !.nodes = Strs(<<>>)]
      [] e = "nodes_dup" ->
            IF HasNodes(g) THEN [g EXCEPT !.nodes.elems = @ \o <<@[1]>>] ELSE g
      [] e = "nodes_str" -> [g EXCEPT !.nodes = NotList(Str("toaster"))]
      [] e = "nodes_unhashable" ->
            IF g.nodes.k = "list"
            THEN [g EXCEPT !.nodes.elems = @ \o <<EmptyList>>] ELSE g
      [] e = "nodes_absent" -> [g EXCEPT !.nodes = NotList(Absent)]
      [] e = "edges_empty" -> [g EXCEPT !.edges = List(<<>>)]
      [] e = "edges_str" -> [g EXCEPT !.edges = NotList(Str("none"))]
      [] e = "edges_absent" -> [g EXCEPT !.edges = NotList(Absent)]
      [] e = "edges_dup" ->
            IF HasEdge(g) THEN [g EXCEPT !.edges.elems = @ \o <<@[1]>>] ELSE g
      [] e = "edges_extra" ->
            IF g.edges.k = "list"
            THEN [g EXCEPT !.edges.elems = @ \o <<DoorEdge>>] ELSE g
      [] e = "edges_switch" ->
            IF g.edges.k = "list"
            THEN [g EXCEPT !.edges.elems = @ \o <<SwitchEdge>>] ELSE g
      [] e = "edges_drop" ->
            IF HasEdge(g) THEN [g EXCEPT !.edges.elems = Tail(@)] ELSE g
      [] e = "edges_notdict" ->
            IF g.edges.k = "list"
            THEN [g EXCEPT !.edges.elems = @ \o <<NotEdge(Str("edge"))>>]
            ELSE g
      [] OTHER ->
            IF ~HasEdge(g) THEN g
            ELSE LET edge == g.edges.elems[1]
                     sp == edge.spatial_relations
                 IN
            CASE e = "e_fr_other" ->
                    FirstEdge(g, [edge EXCEPT !.functional_relationship =
                        IF @ = Str("adjust") THEN Str("activate")
                        ELSE Str("adjust")])
              [] e = "e_fr_invalid" ->
                    FirstEdge(g, [edge EXCEPT !.functional_relationship =
                                     Str("invalid_relationship")])
              [] e = "e_fr_list" ->
                    FirstEdge(g, [edge EXCEPT !.functional_relationship =
                                     EmptyList])
              [] e = "e_fr_absent" ->
                    FirstEdge(g, [edge EXCEPT !.functional_relationship =
                                     Absent])
              [] e = "e_swap" ->
                    FirstEdge(g, [edge EXCEPT !.object1 = edge.object2,
                                              !.object2 = edge.object1])
              [] e = "e_o1_other" ->
                    FirstEdge(g, [edge EXCEPT !.object1 = Str("faucet")])
              [] e = "e_o1_list" ->
                    FirstEdge(g, [edge EXCEPT !.object1 = EmptyList])
              [] e = "e_o2_dict" ->
                    FirstEdge(g, [edge EXCEPT !.object2 = EmptyDict])
              [] e = "e_o2_absent" ->
                    FirstEdge(g, [edge EXCEPT !.object2 = Absent])
              [] e = "e_sp_half" ->
                    IF sp.k = "list" /\ Len(sp.elems) > 0
                    THEN FirstEdge(g, [edge EXCEPT !.spatial_relations.elems =
                            SubSeq(@, 1, Len(@) \div 2)])
                    ELSE g
              [] e = "e_sp_other" ->
                    FirstEdge(g, [edge EXCEPT !.spatial_relations =
                                     Strs(<<"left_of", "far">>)])
              [] e = "e_sp_more" ->
                    IF sp.k = "list"
                    THEN FirstEdge(g, [edge EXCEPT !.spatial_relations.elems =
                            @ \o <<Str("touching")>>])
                    ELSE g
              [] e = "e_sp_empty" ->
                    FirstEdge(g, [edge EXCEPT !.spatial_relations = Strs(<<>>)])
              [] e = "e_sp_invalid" ->
                    IF sp.k = "list"
                    THEN FirstEdge(g, [edge EXCEPT !.spatial_relations.elems =
                            @ \o <<Str("diagonal")>>])
                    ELSE g
              [] e = "e_sp_unhashable" ->
                    IF sp.k = "list"
                    THEN FirstEdge(g, [edge EXCEPT !.spatial_relations.elems =
                            @ \o <<EmptyList>>])
                    ELSE g
              [] e = "e_sp_str" ->
                    FirstEdge(g, [edge EXCEPT !.spatial_relations =
                                     NotList(Str("close"))])
              [] e = "e_touch_flip" ->
                    FirstEdge(g, [edge EXCEPT !.is_touching =
                        IF @ = Bool(TRUE) THEN Bool(FALSE) ELSE Bool(TRUE)])
              [] e = "e_touch_str" ->
                    FirstEdge(g, [edge EXCEPT !.is_touching = Str("false")])
              [] e = "e_touch_null" ->
                    FirstEdge(g, [edge EXCEPT !.is_touching = Null])
              [] e = "e_touch_absent" ->
                    FirstEdge(g, [edge EXCEPT !.is_touching = Absent])
              [] OTHER -> g

\* Edits that keep a payload within the schema.
ValidEdits ==
    {"ti_other", "at_other", "ft_other", "nodes_extra", "nodes_extra2",
     "nodes_drop", "nodes_other", "nodes_empty", "nodes_dup", "edges_empty",
     "edges_dup", "edges_extra", "edges_switch", "edges_drop", "e_fr_other",
     "e_swap", "e_o1_other", "e_sp_half", "e_sp_other", "e_sp_more",
     "e_sp_empty", "e_touch_flip"}

\* Edits that put a value of another type, an unknown name, or nothing where
\* the schema wants a string, a list, a mapping or a boolean.
OtherEdits ==
    {"ti_null", "ti_absent", "at_invalid", "at_list", "at_dict", "at_null",
     "at_absent", "ft_list", "ft_null", "ft_absent", "nodes_str",
     "nodes_unhashable", "nodes_absent", "edges_str", "edges_absent",
     "edges_notdict", "e_fr_invalid", "e_fr_list", "e_fr_absent", "e_o1_list",
     "e_o2_dict", "e_o2_absent", "e_sp_invalid", "e_sp_unhashable",
     "e_sp_str", "e_touch_str", "e_touch_null", "e_touch_absent"}

\* Well-formed scene graphs: the ground truths.
SceneGraphs ==
    {Toaster, TestTask, Faucet}
    \cup {Edit(Toaster, e) :
            e \in {"nodes_empty", "e_sp_empty", "edges_switch", "edges_extra"}}

\* Payloads within the schema (but for the type of a node, an object or
\* function_type): each scene graph changed once, the fixture changed twice.
ValidPayloads ==
    SceneGraphs
    \cup {Edit(g, e) : g \in SceneGraphs, e \in ValidEdits}
    \cup {Edit(Edit(Toaster, a), b) : a \in ValidEdits, b \in ValidEdits}

\* Payloads with one of the other edits: each scene graph changed once, the
\* fixture changed once more before or after.
OtherPayloads ==
    {Edit(g, e) : g \in SceneGraphs, e \in OtherEdits}
    \cup {Edit(Edit(Toaster, a), e) : a \in ValidEdits \cup OtherEdits,
                                      e \in OtherEdits}

\* Payloads four changes away from the fixture or from the graph without
\* edges: the low end of the similarity scale.
DeepEdits ==
    {"ti_other", "at_other", "ft_other", "nodes_drop", "nodes_extra",
     "edges_empty", "edges_extra", "edges_drop", "e_touch_flip", "e_fr_other"}
DeepPayloads ==
    {Edit(Edit(Edit(Edit(g, a), b), c), d) :
        g \in {Toaster, TestTask}, a \in DeepEdits, b \in DeepEdits,
        c \in DeepEdits, d \in DeepEdits}

GroundTruthOf(g) == [t |-> "obj", obj |-> g]
GroundTruths ==
    {GroundTruthOf(g) : g \in SceneGraphs}
    \cup {[t |-> "null", obj |-> EmptyPayload],
          [t |-> "bad", obj |-> EmptyPayload]}

\* `Answer: ` and the payload.
OnlyAnswer(p) == <<TAnswer, TColon, TWs(1), TObj(p)>>

PadLens == {100 * i : i \in 1..MaxPad}

\* The shapes of text around payloads p and q, with n characters of prose.
Shapes(p, q, n) ==
    {<<>>,
     <<TText(n)>>,
     <<TText(n), TWs(2)>> \o OnlyAnswer(p),
     <<TText(n), TWs(2), TAnswer, TColon, TWs(1), TBad>>,
     OnlyAnswer(p) \o <<TWs(1), TText(n)>>,
     OnlyAnswer(p) \o <<TWs(1)>>,
     OnlyAnswer(p) \o <<TText(n), TRBrace>>,
     <<TAnswer, TColon, TWs(1), TText(n), TWs(1)>> \o OnlyAnswer(p),
     OnlyAnswer(p) \o <<TWs(1)>> \o OnlyAnswer(q),
     <<TAnswer, TColon, TWs(1), TBad, TWs(1)>> \o OnlyAnswer(p),
     <<TAnswer, TWs(1), TColon, TObj(p)>>,
     <<TAnswer, TText(n), TColon, TObj(p)>>,
     <<TAnswer, TColon, TLBrace>>,
     <<TAnswer, TColon, TLBrace, TWs(1), TRBrace>>,
     <<TAnswer, TColon, TLBrace, TText(n), TRBrace>>,
     <<TAnswer, TColon, TWs(1), TLBrace, TWs(1)>> \o OnlyAnswer(p),
     <<TObj(p)>>,
     <<TText(n), TColon, TWs(1), TObj(p)>>,
     <<TColon, TAnswer, TWs(1), TObj(p)>>}

ShapePayloads ==
    {Toaster, TestTask, Edit(Toaster, "at_other"), Edit(Toaster, "at_invalid"),
     Edit(Toaster, "at_list")}

Sample(r, g) == [response |-> r, ground_truth |-> g]

\* Every payload within the schema against every ground truth, every other
\* payload against the fixture and against a ground truth that is no JSON,
\* each as a bare answer.
PayloadSamples ==
    {Sample(OnlyAnswer(p), g) : p \in ValidPayloads, g \in GroundTruths}
    \cup {Sample(OnlyAnswer(p), g) :
            p \in OtherPayloads,
            g \in {GroundTruthOf(Toaster), [t |-> "bad", obj |-> EmptyPayload]}}
    \cup {Sample(OnlyAnswer(p), g) :
            p \in DeepPayloads,
            g \in {GroundTruthOf(Toaster),
                   GroundTruthOf(Edit(Toaster, "nodes_empty"))}}

\* Every shape of text against the fixture and against two other ground
\* truths.
ShapeSamples ==
    {Sample(r, g) :
        r \in UNION {Shapes(p, q, n) : p \in ShapePayloads,
                                       q \in {Toaster, TestTask},
                                       n \in PadLens},
        g \in {GroundTruthOf(Toaster), GroundTruthOf(TestTask),
               [t |-> "bad", obj |-> EmptyPayload]}}

\* The sample of test_slash_objects.py, its response indented and on a line
\* of its own as in the test, or bare.
SlashSamples ==
    {Sample(r, GroundTruthOf(Faucet)) :
        r \in UNION {{<<TWs(5)>> \o OnlyAnswer(FaucetAs(alias)) \o <<TWs(5)>>,
                      OnlyAnswer(FaucetAs(alias))} :
                     alias \in {"faucet", "handle"}}}

\* The samples batches of several are built from.
BatchSamples ==
    {Sample(OnlyAnswer(Toaster), GroundTruthOf(Toaster)),
     Sample(OnlyAnswer(Edit(Toaster, "at_other")), GroundTruthOf(Toaster)),
     Sample(OnlyAnswer(Edit(Toaster, "at_list")), GroundTruthOf(Toaster)),
     Sample(OnlyAnswer(Edit(Toaster, "nodes_unhashable")),
            GroundTruthOf(Toaster)),
     Sample(<<TText(300)>>, GroundTruthOf(TestTask)),
     Sample(<<TText(100), TWs(2)>> \o OnlyAnswer(TestTask),
            [t |-> "bad", obj |-> EmptyPayload])}

SeqsOfLen(S, n) == [1..n -> S]

Batches ==
    {[isList |-> TRUE, items |-> <<s>>] :
        s \in PayloadSamples \cup ShapeSamples \cup SlashSamples}
    \cup {[isList |-> TRUE, items |-> b] :
            b \in UNION {SeqsOfLen(BatchSamples, n) : n \in 0..MaxBatch}}
    \cup {[isList |-> FALSE, items |-> <<s>>] : s \in BatchSamples}

\* (max_response_length, overlong_buffer_length)
LengthConfigs == {<<2048, 512>>, <<400, 200>>, <<100, 20>>}

Init ==
    /\ reward_inputs \in Batches
    /\ \E c \in LengthConfigs :
          /\ max_response_length = c[1]
          /\ overlong_buffer_length = c[2]
          /\ (Len(reward_inputs.items) = 1 /\ reward_inputs.isList
                => c = <<400, 200>>)
    /\ overlong_penalty_factor = One
    /\ format_weight = Frac(2, 10)
    /\ pc = "call"
    /\ exc = "none"
    /\ idx = 0
    /\ scores = <<>>
    /\ format_score = Unset
    /\ accuracy_score = Unset
    /\ overlong_score = Unset
    /\ response_length = 0
    /\ pred_json = NoJson
    /\ gt_json = NoGt
    /\ similarity = Unset

Spec == Init /\ [][Next]_vars

-----------------------------------------------------------------------------
(* compute_score under other weights *)

\* (overlong_penalty_factor, format_weight)
WeightConfigs ==
    {<<One, Frac(2, 10)>>, <<Frac(1, 2), Frac(2, 10)>>, <<Frac(2, 1), Frac(1, 2)>>,
     <<Zero, One>>}

InitWeights ==
    /\ reward_inputs \in
          {[isList |-> TRUE, items |-> b] :
              b \in UNION {SeqsOfLen(BatchSamples, n) : n \in 0..MaxBatch}}
          \cup {[isList |-> FALSE, items |-> <<s>>] : s \in BatchSamples}
    /\ \E c \in LengthConfigs :
          /\ max_response_length = c[1]
          /\ overlong_buffer_length = c[2]
    /\ \E w \in WeightConfigs :
          /\ overlong_penalty_factor = w[1]
          /\ format_weight = w[2]
    /\ pc = "call"
    /\ exc = "none"
    /\ idx = 0
    /\ scores = <<>>
    /\ format_score = Unset
    /\ accuracy_score = Unset
    /\ overlong_score = Unset
    /\ response_length = 0
    /\ pred_json = NoJson
    /\ gt_json = NoGt
    /\ similarity = Unset

SpecWeights == InitWeights /\ [][Next]_vars

-----------------------------------------------------------------------------
(* soft_overlong_punishment on its own *)

\* Lengths, budgets and buffers run up to MaxLength.
MaxLength == 8

\* The lengths of the specification's example: max = 100, buffer = 20.
ExampleLengths == {<<80, 100, 20>>, <<90, 100, 20>>, <<150, 100, 20>>}

InitLen ==
    /\ \E c \in ((0..MaxLength) \X (1..MaxLength) \X (1..MaxLength))
                \cup ExampleLengths :
          /\ response_length = c[1]
          /\ max_response_length = c[2]
          /\ overlong_buffer_length = c[3]
    /\ reward_inputs = [isList |-> TRUE, items |-> <<>>]
    /\ overlong_penalty_factor = One
    /\ format_weight = Frac(2, 10)
    /\ pc = "len_call"
    /\ exc = "none"
    /\ idx = 0
    /\ scores = <<>>
    /\ format_score = Unset
    /\ accuracy_score = Unset
    /\ overlong_score = Unset
    /\ pred_json = NoJson
    /\ gt_json = NoGt
    /\ similarity = Unset

\* overlong_score = soft_overlong_punishment(response_length, ...)
LengthPenalty ==
    /\ pc = "len_call"
    /\ overlong_score' =
           soft_overlong_punishment(response_length, max_response_length,
                                    overlong_buffer_length)
    /\ pc' = "len_done"
    /\ UNCHANGED <<reward_inputs, config, exc, idx, scores, format_score,
                   accuracy_score, response_length, pred_json, gt_json,
                   similarity>>

NextLen == LengthPenalty

SpecLen == InitLen /\ [][NextLen]_vars

-----------------------------------------------------------------------------
(* Properties *)

Half == Frac(1, 2)
MinusHalf == Frac(-5, 10)

\* The ground truth of every sample is the text of a well-formed scene graph.
WellFormedBatch ==
    /\ reward_inputs.isList
    /\ \A i \in 1..Len(reward_inputs.items) :
          /\ reward_inputs.items[i].ground_truth.t = "obj"
          /\ reward_inputs.items[i].ground_truth.obj \in SceneGraphs

\* C1.  Format gate: a format score of 0.0 goes with an accuracy of 0.0 or
\* -0.5 only, in the sample being scored and in every record appended; an
\* accuracy above 0.0 occurs only together with a format score of 1.0.
FormatGateHolds ==
    /\ (format_score = Zero /\ accuracy_score # Unset)
          => accuracy_score \in {Zero, MinusHalf}
    /\ (accuracy_score # Unset /\ FLt(Zero, accuracy_score))
          => format_score = One
    /\ \A i \in 1..Len(scores) :
          /\ scores[i].format = Zero => scores[i].accuracy \in {Zero, MinusHalf}
          /\ FLt(Zero, scores[i].accuracy) => scores[i].format = One

\* A payload that fails the schema check although its graph is within 0.85
\* of the ground truth, scored 0.0.
FormatGateWitness ==
    /\ pc = "overlong"
    /\ format_score = Zero
    /\ accuracy_score = Zero
    /\ pred_json.found
    /\ gt_json.found
    /\ LET s == calculate_graph_similarity(pred_json, gt_json)
       IN  s.exc = "none" /\ FGe(s.val, Frac(85, 100))

\* C2.  No per-sample failure is raised: a call on a list of samples with
\* well-formed ground truths does not raise, whatever the payloads are, and
\* returns one record for each sample.
NoSampleRaises ==
    WellFormedBatch =>
        /\ pc # "raised"
        /\ pc = "returned" => Len(scores) = Len(reward_inputs.items)

\* Scoring one sample alone, with the configuration of the call.
SoloRaises(sample) ==
    \/ format_reward(sample.response).exc # "none"
    \/ accuracy_reward(sample.response, sample.ground_truth).exc # "none"

SoloRecord(sample) ==
    ScoreRecord(format_reward(sample.response).val,
                accuracy_reward(sample.response, sample.ground_truth).val,
                soft_overlong_punishment(PyLen(sample.response),
                                         max_response_length,
                                         overlong_buffer_length),
                overlong_penalty_factor, format_weight)

\* C3.  Once a call on a list has ended, it has returned a list as long as
\* its input, and the record at every index is the record of that sample
\* scored alone, whatever the other samples of the batch are.
BatchIndependent ==
    (reward_inputs.isList /\ pc \in {"returned", "raised"}) =>
        \A i \in 1..Len(reward_inputs.items) :
            ~SoloRaises(reward_inputs.items[i]) =>
                /\ pc = "returned"
                /\ Len(scores) = Len(reward_inputs.items)
                /\ scores[i] = SoloRecord(reward_inputs.items[i])

\* The conditions of the schema, as the specification lists them.
IsOneOf(v, S) == v.k = "str" /\ v.s \in S

EdgeWithinSchema(e) ==
    /\ e.k = "dict"
    /\ HasKey(e.functional_relationship) /\ HasKey(e.object1)
    /\ HasKey(e.object2) /\ HasKey(e.spatial_relations)
    /\ HasKey(e.is_touching)
    /\ IsOneOf(e.functional_relationship, VALID_FUNCTIONAL_RELATIONSHIPS)
    /\ e.spatial_relations.k = "list"
    /\ \A j \in 1..Len(e.spatial_relations.elems) :
          IsOneOf(e.spatial_relations.elems[j], VALID_SPATIAL_RELATIONS)
    /\ e.is_touching.k = "bool"

WithinSchema(p) ==
    /\ HasKey(p.task_instruction) /\ HasKey(p.nodes) /\ HasKey(p.edges)
    /\ HasKey(p.action_type) /\ HasKey(p.function_type)
    /\ p.nodes.k = "list"
    /\ p.edges.k = "list"
    /\ p.task_instruction.k = "str"
    /\ IsOneOf(p.action_type, VALID_ACTION_TYPES)
    /\ \A i \in 1..Len(p.edges.elems) : EdgeWithinSchema(p.edges.elems[i])

AnswerWithinSchema(resp) ==
    /\ LabelFound(resp)
    /\ extract_answer_json(resp).found
    /\ WithinSchema(extract_answer_json(resp).json)

\* C4.  format_reward returns 1.0 exactly when the response holds the label
\* pattern and its payload parses and is within the schema, and returns 0.0
\* otherwise: once the format step of a sample is over, format_score is 1.0
\* or 0.0 accordingly.
FormatRewardIff ==
    (idx >= 1 /\ pc \notin {"format", "loop", "returned"}) =>
        format_score = IF AnswerWithinSchema(response) THEN One ELSE Zero

\* The values the specification gives accuracy.
AccuracyValues ==
    {MinusHalf, Zero, Frac(2, 10), Frac(5, 10), Frac(8, 10), One}

\* The step function of the specification, as a relation of s and accuracy.
StepOf(s, acc) ==
    /\ FGe(s, Frac(98, 100)) => acc = One
    /\ (FGe(s, Frac(85, 100)) /\ FLt(s, Frac(98, 100))) => acc = Frac(8, 10)
    /\ (FGe(s, Frac(70, 100)) /\ FLt(s, Frac(85, 100))) => acc = Frac(5, 10)
    /\ (FGe(s, Frac(50, 100)) /\ FLt(s, Frac(70, 100))) => acc = Frac(2, 10)
    /\ (FGe(s, Frac(30, 100)) /\ FLt(s, Frac(50, 100))) => acc = Zero
    /\ FLt(s, Frac(30, 100)) => acc = MinusHalf

\* C5.  Where accuracy_reward reaches the similarity, the accuracy is the
\* step function of it, lower boundaries included; the mapping does not
\* decrease (the accuracy of any similarity at or above this one is at least
\* this accuracy, of any at or below at most); and every accuracy computed or
\* recorded is one of the six values.
AccuracyBuckets ==
    /\ (pc \in {"overlong", "append"} /\ similarity # Unset) =>
          /\ StepOf(similarity, accuracy_score)
          /\ \A k \in 0..200 :
                LET t == Frac(k, 200)
                IN  /\ FLe(similarity, t)
                        => FLe(accuracy_score, AccuracyBucket(t))
                    /\ FLe(t, similarity)
                        => FLe(AccuracyBucket(t), accuracy_score)
    /\ accuracy_score \in AccuracyValues \cup {Unset}
    /\ \A i \in 1..Len(scores) : scores[i].accuracy \in AccuracyValues

\* A similarity exactly on the 0.85 boundary, mapped to 0.8.
AccuracyBucketsWitness ==
    /\ pc = "overlong"
    /\ similarity = Frac(85, 100)
    /\ accuracy_score = Frac(8, 10)

InUnit(x) == FLe(Zero, x) /\ FLe(x, One)

\* C6.  Every graph similarity computed lies in [0,1], as does the similarity
\* of every predicted edge against every ground-truth edge of the sample, and
\* the edges component is not negative.
SimilarityBounds ==
    /\ similarity # Unset => InUnit(similarity)
    /\ pc = "acc_bucket" =>
          LET pred_edges == EdgeList(pred_json.json.edges)
              gt_edges == EdgeList(gt_json.json.edges)
          IN  /\ \A i \in 1..Len(pred_edges) : \A j \in 1..Len(gt_edges) :
                    LET r == calculate_edge_similarity(pred_edges[i],
                                                       gt_edges[j])
                    IN  r.exc = "none" => InUnit(r.val)
              /\ FLe(Zero, EdgesComponent(pred_edges, gt_edges).val)

\* More predicted edges than ground-truth edges, and so poor a match that
\* the penalty exceeds the averaged edge score.
SimilarityBoundsWitness ==
    /\ pc = "acc_bucket"
    /\ LET pred_edges == EdgeList(pred_json.json.edges)
           gt_edges == EdgeList(gt_json.json.edges)
       IN  /\ Len(gt_edges) > 0
           /\ Len(pred_edges) > Len(gt_edges)
           /\ FLt(FDivInt(EdgeScoreSum(pred_edges, gt_edges).val, Len(gt_edges)),
                  Frac(Len(pred_edges) - Len(gt_edges), 10))
    /\ InUnit(similarity)

\* The nodes are not empty, there is an edge, and every edge has a spatial
\* relation.
FullGraph(g) ==
    /\ Len(g.nodes.elems) > 0
    /\ Len(g.edges.elems) > 0
    /\ \A i \in 1..Len(g.edges.elems) :
          Len(g.edges.elems[i].spatial_relations.elems) > 0

SchemaValidGroundTruth(ground_truth) ==
    ground_truth.t = "obj" /\ ground_truth.obj \in SceneGraphs

\* The response is `Answer: ` and the ground-truth object, after no text or
\* after prose and whitespace.
ExactAnswer(sample) ==
    /\ SchemaValidGroundTruth(sample.ground_truth)
    /\ \E k \in 0..Len(sample.response) :
          /\ SubSeq(sample.response, k + 1, Len(sample.response))
                = OnlyAnswer(sample.ground_truth.obj)
          /\ \A i \in 1..k : sample.response[i].t \in {"text", "ws"}

\* C7 as stated: for every schema-valid ground truth, the response that
\* answers with exactly that object gets format 1.0 and accuracy 1.0.
PerfectMatchAlways ==
    (pc = "overlong" /\ ExactAnswer(reward_input)) =>
        format_score = One /\ accuracy_score = One

\* C7, amended: for every schema-valid ground truth with nodes, with an edge
\* and with a spatial relation in every edge, the response that answers with
\* exactly that object gets format 1.0 and accuracy 1.0.
PerfectMatchFull ==
    (/\ pc = "overlong"
     /\ ExactAnswer(reward_input)
     /\ FullGraph(reward_input.ground_truth.obj)) =>
        format_score = One /\ accuracy_score = One

\* The exact answer to a ground truth of two edges, after some reasoning or
\* none, scored 1.0.
PerfectMatchWitness ==
    /\ pc = "overlong"
    /\ ExactAnswer(reward_input)
    /\ FullGraph(reward_input.ground_truth.obj)
    /\ Len(reward_input.ground_truth.obj.edges.elems) = 2
    /\ format_score = One
    /\ accuracy_score = One

\* The payload is the ground truth with one of the three scalar fields
\* replaced: task_instruction by another string, action_type by another
\* valid action type, function_type by another value.
OneScalarOff(p, g) ==
    /\ p # g
    /\ \/ /\ p = [g EXCEPT !.task_instruction = p.task_instruction]
          /\ p.task_instruction.k = "str"
       \/ /\ p = [g EXCEPT !.action_type = p.action_type]
          /\ IsOneOf(p.action_type, VALID_ACTION_TYPES)
       \/ /\ p = [g EXCEPT !.function_type = p.function_type]
          /\ HasKey(p.function_type)

OneScalarOffSample ==
    /\ pc = "overlong"
    /\ SchemaValidGroundTruth(reward_input.ground_truth)
    /\ pred_json.found
    /\ OneScalarOff(pred_json.json, reward_input.ground_truth.obj)

OneScalarOffScores ==
    /\ format_score = One
    /\ similarity = Frac(4, 5)
    /\ accuracy_score = Half

\* C8 as stated: with a ground truth that has nodes and at least one edge
\* with a spatial relation, one scalar field off gives format 1.0,
\* similarity 4/5 and accuracy 0.5.
OneScalarOffSomeEdge ==
    (/\ OneScalarOffSample
     /\ LET g == reward_input.ground_truth.obj
        IN  /\ Len(g.nodes.elems) > 0
            /\ \E i \in 1..Len(g.edges.elems) :
                  Len(g.edges.elems[i].spatial_relations.elems) > 0)
    => OneScalarOffScores

\* C8, amended: with a ground truth that has nodes, at least one edge and a
\* spatial relation in every edge, one scalar field off gives format 1.0,
\* similarity 4/5 and accuracy 0.5.
OneScalarOffEveryEdge ==
    (OneScalarOffSample /\ FullGraph(reward_input.ground_truth.obj))
    => OneScalarOffScores

\* The fixture answered with action_type "press" in place of "insert".
OneScalarOffWitness ==
    /\ OneScalarOffSample
    /\ reward_input.ground_truth.obj = Toaster
    /\ pred_json.json.action_type = Str("press")
    /\ OneScalarOffScores

\* No payload can be extracted: the label pattern is absent, or the captured
\* text is no JSON.
NoPayload(resp) == ~LabelFound(resp) \/ ~JsonLoads(MatchGroup(resp)).found

\* C9.  Once the accuracy of a sample is computed: it is -0.5 when the
\* ground truth is no JSON, whatever the response; and when no payload can be
\* extracted it is -0.5 and the format score is 0.0, whatever the ground
\* truth.
ExtractionFailures ==
    pc \in {"overlong", "append"} =>
        /\ reward_input.ground_truth.t = "bad" => accuracy_score = MinusHalf
        /\ NoPayload(response) =>
              accuracy_score = MinusHalf /\ format_score = Zero

\* A payload outside the schema against a ground truth that is no JSON:
\* -0.5, not the 0.0 of the format gate.
ExtractionFailuresWitness ==
    /\ pc = "overlong"
    /\ reward_input.ground_truth.t = "bad"
    /\ pred_json.found
    /\ format_score = Zero
    /\ accuracy_score = MinusHalf

\* C10.  The length penalty is 0.0 up to expected = max - buffer, then
\* (expected - length) / buffer up to max, then -1.0; it lies in [-1, 0],
\* does not increase with the length, and gives 0.0, -0.5 and -1.0 at 80, 90
\* and 150 for max = 100 and buffer = 20.
LengthPenaltyShape ==
    pc = "len_done" =>
        LET expected == max_response_length - overlong_buffer_length
        IN  /\ response_length <= expected => overlong_score = Zero
            /\ (expected < response_length
                    /\ response_length <= max_response_length)
                  => overlong_score = Frac(expected - response_length,
                                           overlong_buffer_length)
            /\ response_length > max_response_length
                  => overlong_score = Frac(-1, 1)
            /\ FLe(Frac(-1, 1), overlong_score) /\ FLe(overlong_score, Zero)
            /\ FLe(soft_overlong_punishment(response_length + 1,
                                            max_response_length,
                                            overlong_buffer_length),
                   overlong_score)
            /\ (max_response_length = 100 /\ overlong_buffer_length = 20) =>
                  /\ response_length = 80 => overlong_score = Zero
                  /\ response_length = 90 => overlong_score = MinusHalf
                  /\ response_length = 150 => overlong_score = Frac(-1, 1)

\* The example of the specification: length 90 of max 100 with buffer 20.
LengthPenaltyWitness ==
    /\ pc = "len_done"
    /\ response_length = 90
    /\ max_response_length = 100
    /\ overlong_buffer_length = 20
    /\ overlong_score = MinusHalf

\* C11.  Every record compute_score has built is made of
\* format = format_reward(response), accuracy = accuracy_reward(response,
\* ground_truth), overlong = soft_overlong_punishment(len(response), max,
\* buffer), overall = format_weight * format + (1 - format_weight) * accuracy
\* + overlong_penalty_factor * overlong and accuracy_normalized =
\* 0.5 * (accuracy + 1.0); format is 0 or 1, overlong is in [-1, 0] and
\* accuracy_normalized in [0.25, 1].
RecordFormula ==
    \A i \in 1..Len(scores) :
        LET sample == reward_inputs.items[i]
            record == scores[i]
            fmt == format_reward(sample.response)
            acc == accuracy_reward(sample.response, sample.ground_truth)
        IN  /\ fmt.exc = "none" /\ record.format = fmt.val
            /\ acc.exc = "none" /\ record.accuracy = acc.val
            /\ record.overlong =
                  soft_overlong_punishment(PyLen(sample.response),
                                           max_response_length,
                                           overlong_buffer_length)
            /\ record.overall =
                  FAdd(FAdd(FMul(format_weight, record.format),
                            FMul(FSub(One, format_weight), record.accuracy)),
                       FMul(overlong_penalty_factor, record.overlong))
            /\ record.accuracy_normalized =
                  FMul(Frac(1, 2), FAdd(record.accuracy, One))
            /\ record.format \in {Zero, One}
            /\ FLe(Frac(-1, 1), record.overlong) /\ FLe(record.overlong, Zero)
            /\ FLe(Frac(1, 4), record.accuracy_normalized)
            /\ FLe(record.accuracy_normalized, One)

\* A returned batch of two with a record whose length penalty is partial and
\* whose factor is not 1.
RecordFormulaWitness ==
    /\ pc = "returned"
    /\ Len(scores) = 2
    /\ overlong_penalty_factor = Frac(1, 2)
    /\ \E i \in 1..2 :
          /\ scores[i].accuracy = Half
          /\ FLt(Frac(-1, 1), scores[i].overlong)
          /\ FLt(scores[i].overlong, Zero)

\* Edges a prediction may be given on top of those it has.
FurtherEdges == {ToasterEdge, FaucetEdge, SwitchEdge, DoorEdge}

\* The similarity of a scored sample has been computed from a ground truth
\* with an edge and a prediction with at least as many edges.
EnoughEdgesScored ==
    /\ pc = "acc_bucket"
    /\ Len(EdgeList(gt_json.json.edges)) >= 1
    /\ Len(EdgeList(pred_json.json.edges))
          >= Len(EdgeList(gt_json.json.edges))

\* The edges component, and the graph similarity, of the scored prediction
\* with edge e appended are not above those of the prediction itself.
NoGainFrom(e) ==
    LET pred_edges == EdgeList(pred_json.json.edges)
        gt_edges == EdgeList(gt_json.json.edges)
        more == [found |-> TRUE,
                 json |-> [pred_json.json EXCEPT
                              !.edges = List(Append(pred_edges, e))]]
    IN  /\ FLe(EdgesComponent(Append(pred_edges, e), gt_edges).val,
               EdgesComponent(pred_edges, gt_edges).val)
        /\ FLe(calculate_graph_similarity(more, gt_json).val, similarity)

\* Edge e matches no ground-truth edge better than the predicted edges
\* already do.
NoBetterMatch(e) ==
    LET pred_edges == EdgeList(pred_json.json.edges)
        gt_edges == EdgeList(gt_json.json.edges)
    IN  \A j \in 1..Len(gt_edges) :
            FLe(calculate_edge_similarity(e, gt_edges[j]).val,
                BestMatch(pred_edges, gt_edges[j], Zero).val)

JaccardSymmetric ==
    pc = "acc_bucket" =>
        LET pred == pred_json.json
            gt == gt_json.json
            pred_edges == EdgeList(pred.edges)
            gt_edges == EdgeList(gt.edges)
        IN  /\ NodesComponent(pred.nodes, gt.nodes)
                  = NodesComponent(gt.nodes, pred.nodes)
            /\ \A i \in 1..Len(pred_edges), j \in 1..Len(gt_edges) :
                  /\ Jaccard(SetOf(pred_edges[i].spatial_relations).set,
                             SetOf(gt_edges[j].spatial_relations).set)
                        = Jaccard(SetOf(gt_edges[j].spatial_relations).set,
                                  SetOf(pred_edges[i].spatial_relations).set)
                  /\ calculate_edge_similarity(pred_edges[i], gt_edges[j])
                        = calculate_edge_similarity(gt_edges[j], pred_edges[i])

\* A prediction without nodes against a ground truth with nodes, and an edge
\* without spatial relations against one with some.
JaccardSymmetricWitness ==
    /\ pc = "acc_bucket"
    /\ SetOf(pred_json.json.nodes).set = {}
    /\ SetOf(gt_json.json.nodes).set # {}
    /\ NodesComponent(gt_json.json.nodes, pred_json.json.nodes) = Ok(Zero)
    /\ \E i \in 1..Len(EdgeList(pred_json.json.edges)) :
          \E j \in 1..Len(EdgeList(gt_json.json.edges)) :
             /\ SetOf(pred_json.json.edges.elems[i].spatial_relations).set = {}
             /\ SetOf(gt_json.json.edges.elems[j].spatial_relations).set # {}

\* C14.  A response that names the object `faucet / handle` of the ground
\* truth of test_slash_objects.py by one of its aliases, and is the ground
\* truth otherwise, is within the schema, its edge matches the ground
\* truth's edge in full, and its accuracy is at least 0.8.
AliasAnswerScoresHigh ==
    (/\ pc = "overlong"
     /\ reward_input.ground_truth = GroundTruthOf(Faucet)
     /\ pred_json.found
     /\ pred_json.json \in {FaucetAs("faucet"), FaucetAs("handle")}) =>
        /\ format_score = One
        /\ calculate_edge_similarity(pred_json.json.edges.elems[1], FaucetEdge)
              = Ok(One)
        /\ FGe(accuracy_score, Frac(8, 10))

LargestMatch(pred_edges, gt_edge) ==
    LET sims == {Zero} \cup
                {calculate_edge_similarity(pred_edges[i], gt_edge).val :
                    i \in 1..Len(pred_edges)}
    IN  CHOOSE m \in sims : \A x \in sims : FLe(x, m)

RECURSIVE SumOfLargest(_, _, _)
SumOfLargest(pred_edges, gt_edges, j) ==
    IF j = 0 THEN Zero
    ELSE FAdd(SumOfLargest(pred_edges, gt_edges, j - 1),
              LargestMatch(pred_edges, gt_edges[j]))

EdgesFormula(pred_edges, gt_edges) ==
    LET excess == IF Len(pred_edges) > Len(gt_edges)
                  THEN Len(pred_edges) - Len(gt_edges) ELSE 0
    IN  FMax(Zero,
             FSub(FDivInt(SumOfLargest(pred_edges, gt_edges, Len(gt_edges)),
                          Len(gt_edges)),
                  Frac(excess, 10)))

\* C16.  For the prediction and the ground truth of a scored sample: with
\* ground-truth edges the edges component is max(0, (sum over the
\* ground-truth edges of the largest match) / |gt.edges| - 0.1 * max(0,
\* |pred.edges| - |gt.edges|)); without, it is 0 and the similarity, still
\* over 5, is at most 4/5.
EdgesComponentFormula ==
    pc = "acc_bucket" =>
        LET pred_edges == EdgeList(pred_json.json.edges)
            gt_edges == EdgeList(gt_json.json.edges)
        IN  IF gt_edges # <<>>
            THEN EdgesComponent(pred_edges, gt_edges)
                    = Ok(EdgesFormula(pred_edges, gt_edges))
            ELSE /\ EdgesComponent(pred_edges, gt_edges) = Ok(Zero)
                 /\ FLe(similarity, Frac(4, 5))

\* Two predicted edges against two ground-truth edges that have the same
\* predicted edge as their best match, above 0.
EdgesComponentFormulaWitness ==
    /\ pc = "acc_bucket"
    /\ LET pred_edges == EdgeList(pred_json.json.edges)
           gt_edges == EdgeList(gt_json.json.edges)
       IN  /\ Len(gt_edges) = 2
           /\ Len(pred_edges) = 2
           /\ \E i \in 1..2 : \A j \in 1..2 :
                 /\ FLt(Zero, LargestMatch(pred_edges, gt_edges[j]))
                 /\ calculate_edge_similarity(pred_edges[i], gt_edges[j]).val
                       = LargestMatch(pred_edges, gt_edges[j])
                 /\ FLt(calculate_edge_similarity(pred_edges[3 - i],
                                                  gt_edges[j]).val,
                        LargestMatch(pred_edges, gt_edges[j]))

\* The response is `Answer: ` and a payload within the schema, then text
\* that is not only whitespace.
TextAfterPayload(resp) ==
    /\ Len(resp) > 4
    /\ resp[4].t = "obj"
    /\ SubSeq(resp, 1, 4) = OnlyAnswer(resp[4].obj)
    /\ format_reward(SubSeq(resp, 1, 4)) = Ok(One)
    /\ \E i \in 5..Len(resp) : resp[i].t # "ws"

NoAnswerFound ==
    /\ ~pred_json.found
    /\ format_score = Zero
    /\ accuracy_score = MinusHalf

\* C17 as stated: a response in which text that is not whitespace follows
\* the closing brace of an otherwise valid payload yields no answer: format
\* 0.0, accuracy -0.5.
TextAfterPayloadNoAnswer ==
    (pc = "overlong" /\ TextAfterPayload(response)) => NoAnswerFound

\* C17, amended: the group runs from the opening brace to the last closing
\* brace of the text.  A response in which text with a closing brace follows
\* an otherwise valid payload yields no answer (format 0.0, accuracy -0.5);
\* text without a closing brace after the payload is ignored, and the
\* response is scored as the payload alone.
TextAfterLastBraceIgnored ==
    (pc = "overlong" /\ TextAfterPayload(response)) =>
        IF \E i \in 5..Len(response) : HasRBrace(response[i])
        THEN NoAnswerFound
        ELSE /\ pred_json = [found |-> TRUE, json |-> response[4].obj]
             /\ format_score = One
             /\ Ok(accuracy_score)
                   = accuracy_reward(SubSeq(response, 1, 4),
                                     reward_input.ground_truth)

\* The fixture answered exactly, with prose after the payload: scored 1.0.
TextAfterLastBraceWitness ==
    /\ pc = "overlong"
    /\ TextAfterPayload(response)
    /\ \A i \in 5..Len(response) : ~HasRBrace(response[i])
    /\ \E i \in 5..Len(response) : response[i].t = "text"
    /\ pred_json.found
    /\ accuracy_score = One

\* The response is `Answer: ` and a payload within the schema, then, after
\* whitespace at most, `Answer: ` and a second such payload.
TwoAnswers(resp) ==
    /\ Len(resp) >= 8
    /\ resp[4].t = "obj"
    /\ resp[Len(resp)].t = "obj"
    /\ SubSeq(resp, 1, 4) = OnlyAnswer(resp[4].obj)
    /\ SubSeq(resp, Len(resp) - 3, Len(resp)) = OnlyAnswer(resp[Len(resp)].obj)
    /\ \A i \in 5..(Len(resp) - 4) : resp[i].t = "ws"
    /\ format_reward(SubSeq(resp, 1, 4)) = Ok(One)
    /\ format_reward(SubSeq(resp, Len(resp) - 3, Len(resp))) = Ok(One)

\* The response starts with a label that no brace follows and ends with
\* `Answer: ` and a payload, the only label that a brace follows.
SkippedLabel(resp) ==
    /\ Len(resp) >= 6
    /\ resp[1].t = "Answer"
    /\ SkipWs(resp, 2) <= Len(resp) /\ resp[SkipWs(resp, 2)].t = ":"
    /\ ~LabelAt(resp, 1)
    /\ resp[Len(resp)].t = "obj"
    /\ SubSeq(resp, Len(resp) - 3, Len(resp)) = OnlyAnswer(resp[Len(resp)].obj)
    /\ \A i \in 1..Len(resp) : LabelAt(resp, i) => i = Len(resp) - 3

SimilarityGuarded ==
    [][/\ (pc' = "acc_similarity"
              \/ (similarity' # similarity /\ similarity' # Unset)) =>
             /\ gt_json'.parses
             /\ pred_json'.found
             /\ format_score' = One
             /\ format_reward(response) = Ok(One)
       /\ (pc = "acc_gate" /\ format_reward(response) = Ok(Zero)) =>
             /\ pc' = "overlong"
             /\ accuracy_score' = Zero
             /\ similarity' = Unset
       /\ (pc = "acc_gate" /\ format_reward(response) = Ok(One)) =>
             pc' = "acc_similarity"]_vars

\* The similarity has been computed for a payload within the schema against
\* a ground truth that parses to null, no scene graph at all.
SimilarityGuardedWitness ==
    /\ pc = "acc_bucket"
    /\ format_score = One
    /\ pred_json.found
    /\ gt_json.parses
    /\ ~gt_json.found
    /\ similarity = Zero

=============================================================================
